---- MODULE Spec2Model ----
(***************************************************************************)
(* tracktui (src/tracktui/src/main.rs): the application state machine of   *)
(* App::run -- load of data.csv, the draw / handle_events loop with its    *)
(* four view modes and two sub-modes, and the save at shutdown.            *)
(*                                                                         *)
(* Representation.                                                         *)
(*  - A text (String, csv field) is a sequence of one-character strings.   *)
(*  - An f64 is a record [k, neg, mag]: k = "fin" is the finite number     *)
(*    (-1)^neg * mag / Scale (so -0.0 is kept apart from 0.0), k = "inf"   *)
(*    is +-infinity, k = "nan" is NaN.  Every decimal text the model reads *)
(*    has at most 4 fractional digits and a small magnitude, where decimal *)
(*    text -> f64 is injective and order preserving, and f64 -> shortest   *)
(*    decimal text gives the decimal back.                                 *)
(*  - A usize is written by its two's-complement reading: -k stands for    *)
(*    2^64 - k.  Order on usize is ULt below.                              *)
(*  - Option<usize> (TableState::selected) is <<>> for None, <<i>> for     *)
(*    Some(i).                                                             *)
(*  - A panic ends the process: pc = "crashed".                            *)
(***************************************************************************)
EXTENDS Integers, Sequences, FiniteSets

VARIABLES
    pc,             \* position in App::run
    file,           \* data.csv: [exists, recs], recs the csv records, header first
    mode,           \* App.mode
    data_series,    \* App.data_series: sequence of [name, data]
    selected_serie, \* App.selected_serie
    input_mode,     \* App.input_mode
    input_field,    \* App.input_field
    input_x,        \* App.input_x
    input_y,        \* App.input_y
    status_msg,     \* App.status_msg
    table_state,    \* App.table_state.selected
    confirm_delete, \* App.confirm_delete
    confirm_idx,    \* App.confirm_idx
    exit            \* App.exit

appvars ==
    <<mode, data_series, selected_serie, input_mode, input_field, input_x,
      input_y, status_msg, table_state, confirm_delete, confirm_idx, exit>>

storevars ==
    <<data_series, selected_serie>>

inputvars ==
    <<input_mode, input_field, input_x, input_y>>

tablevars ==
    <<table_state, confirm_delete, confirm_idx>>

vars ==
    <<pc, file, mode, data_series, selected_serie, input_mode, input_field,
      input_x, input_y, status_msg, table_state, confirm_delete, confirm_idx,
      exit>>

----------------------------------------------------------------------------
(* Bounds of the exploration (the environment, not the program).           *)

\* Character intents are explored while the two buffers together hold fewer
\* characters than this.
MaxTyped ==
    2

\* The "start insert" intent is explored while the active series holds fewer
\* points than this.
MaxPoints ==
    2

\* Navigation intents are explored while a selection that is no row of the
\* series is fewer than this many positions outside it.
MaxStale ==
    1

\* In the sessions of SpecInput, character intents are explored while the
\* two buffers together hold fewer characters than this (each buffer alone
\* reaches the cap of 5).
MaxInputTyped ==
    6

----------------------------------------------------------------------------
(* f64                                                                     *)

\* Fixed-point unit of the finite values: 4 fractional decimal digits.
Scale ==
    10000

Fin(neg, mag) ==
    [k |-> "fin", neg |-> neg, mag |-> mag]

NaN ==
    [k |-> "nan", neg |-> FALSE, mag |-> 0]

Inf(neg) ==
    [k |-> "inf", neg |-> neg, mag |-> 0]

IsNaN(v) ==
    v.k = "nan"

IsFinite(v) ==
    v.k = "fin"

\* Numeric value of a finite f64, in units of 1/Scale (-0.0 and 0.0 agree).
Num(v) ==
    IF v.neg THEN 0 - v.mag ELSE v.mag

\* a < b on f64 (false when either is NaN).
FLt(a, b) ==
    /\ ~IsNaN(a)
    /\ ~IsNaN(b)
    /\ IF a.k = "inf"
       THEN a.neg /\ ~(b.k = "inf" /\ b.neg)
       ELSE IF b.k = "inf"
            THEN ~b.neg
            ELSE Num(a) < Num(b)

\* f64::partial_cmp: "none" when either is NaN.
PartialCmp(a, b) ==
    IF IsNaN(a) \/ IsNaN(b) THEN "none"
    ELSE IF FLt(a, b) THEN "less"
    ELSE IF FLt(b, a) THEN "greater"
    ELSE "equal"

----------------------------------------------------------------------------
(* Texts                                                                   *)

Digits ==
    {"0", "1", "2", "3", "4", "5", "6", "7", "8", "9"}

DigitVal(c) ==
    CASE c = "0" -> 0 [] c = "1" -> 1 [] c = "2" -> 2 [] c = "3" -> 3
      [] c = "4" -> 4 [] c = "5" -> 5 [] c = "6" -> 6 [] c = "7" -> 7
      [] c = "8" -> 8 [] c = "9" -> 9

DigitChar(d) ==
    CASE d = 0 -> "0" [] d = 1 -> "1" [] d = 2 -> "2" [] d = 3 -> "3"
      [] d = 4 -> "4" [] d = 5 -> "5" [] d = 6 -> "6" [] d = 7 -> "7"
      [] d = 8 -> "8" [] d = 9 -> "9"

\* char::is_ascii_digit
IsAsciiDigit(c) ==
    c \in Digits

\* ASCII lower case of the letters the special float words are made of.
Lower(c) ==
    CASE c = "N" -> "n" [] c = "A" -> "a" [] c = "I" -> "i" [] c = "F" -> "f"
      [] c = "T" -> "t" [] c = "Y" -> "y" [] OTHER -> c

LowerText(t) ==
    [i \in 1..Len(t) |-> Lower(t[i])]

\* Value of a text of decimal digits (0 for the empty text).
RECURSIVE DigitsVal(_)
DigitsVal(t) ==
    IF t = <<>> THEN 0
    ELSE 10 * DigitsVal(SubSeq(t, 1, Len(t) - 1)) + DigitVal(t[Len(t)])

\* Value, in units of 1/Scale, of the fractional digits t.
RECURSIVE FracVal(_)
FracVal(t) ==
    IF t = <<>> THEN 0
    ELSE (DigitVal(t[1]) * Scale) \div 10
         + FracVal(Tail(t)) \div 10

\* Decimal digits of a natural number.
RECURSIVE NatText(_)
NatText(n) ==
    IF n < 10 THEN <<DigitChar(n)>>
    ELSE Append(NatText(n \div 10), DigitChar(n % 10))

\* The 4 fractional digits of m (0 <= m < Scale) without trailing zeros.
RECURSIVE FracText(_, _)
FracText(m, unit) ==
    IF m = 0 THEN <<>>
    ELSE <<DigitChar(m \div unit)>> \o FracText(m % unit, unit \div 10)

----------------------------------------------------------------------------
(* str::parse::<f64> and f64::to_string                                    *)

\* b is <digits>, <digits>.<digits>, <digits>. or .<digits> with at least
\* one digit.  (The exponent part of the float grammar is not modelled: no
\* text of the model holds an 'e'.)
IsDecimal(b) ==
    /\ \A i \in 1..Len(b) : b[i] \in Digits \cup {"."}
    /\ Cardinality({i \in 1..Len(b) : b[i] = "."}) <= 1
    /\ \E i \in 1..Len(b) : b[i] \in Digits

\* Magnitude, in units of 1/Scale, of a decimal text.
DecimalMag(b) ==
    LET dots == {i \in 1..Len(b) : b[i] = "."}
        d    == IF dots = {} THEN Len(b) + 1 ELSE CHOOSE i \in dots : TRUE
    IN  DigitsVal(SubSeq(b, 1, d - 1)) * Scale + FracVal(SubSeq(b, d + 1, Len(b)))

\* The text after an optional sign.
Unsigned(t) ==
    IF t # <<>> /\ t[1] \in {"-", "+"} THEN Tail(t) ELSE t

\* str::parse::<f64>: [ok, val].
ParseF64(t) ==
    LET neg == t # <<>> /\ t[1] = "-"
        b   == Unsigned(t)
        w   == LowerText(b)
    IN  IF IsDecimal(b)
        THEN [ok |-> TRUE, val |-> Fin(neg, DecimalMag(b))]
        ELSE IF w = <<"n", "a", "n">>
        THEN [ok |-> TRUE, val |-> NaN]
        ELSE IF w = <<"i", "n", "f">>
                \/ w = <<"i", "n", "f", "i", "n", "i", "t", "y">>
        THEN [ok |-> TRUE, val |-> Inf(neg)]
        ELSE [ok |-> FALSE, val |-> NaN]

\* f64::to_string (Display): shortest decimal that reads back as the value.
F64ToString(v) ==
    LET sign == IF v.neg THEN <<"-">> ELSE <<>>
    IN  IF v.k = "nan" THEN <<"N", "a", "N">>
        ELSE IF v.k = "inf" THEN sign \o <<"i", "n", "f">>
        ELSE LET frac == FracText(v.mag % Scale, Scale \div 10)
             IN  sign \o NatText(v.mag \div Scale)
                      \o (IF frac = <<>> THEN <<>> ELSE <<".">> \o frac)

----------------------------------------------------------------------------
(* Vec<(f64, f64)>::sort_by(|a, b| a.0.partial_cmp(&b.0).unwrap())         *)

\* The comparator unwraps None: with two or more points every point is
\* compared at least once, so one NaN x panics.
SortPanics(data) ==
    /\ Len(data) >= 2
    /\ \E i \in 1..Len(data) : IsNaN(data[i][1])

\* One insertion step of the stable sort: p moves left past the points
\* whose x is greater.
RECURSIVE InsertTail(_, _)
InsertTail(s, p) ==
    IF s = <<>> THEN <<p>>
    ELSE IF PartialCmp(p[1], s[Len(s)][1]) = "less"
         THEN Append(InsertTail(SubSeq(s, 1, Len(s) - 1), p), s[Len(s)])
         ELSE Append(s, p)

RECURSIVE SortFrom(_, _)
SortFrom(done, rest) ==
    IF rest = <<>> THEN done
    ELSE SortFrom(InsertTail(done, Head(rest)), Tail(rest))

\* The sorted vector (when the sort does not panic).
SortByX(data) ==
    SortFrom(<<>>, data)

\* Vec::remove(i), 0 <= i < len.
Remove(data, i) ==
    SubSeq(data, 1, i) \o SubSeq(data, i + 2, Len(data))

----------------------------------------------------------------------------
(* usize                                                                   *)

\* a < b on usize: the negative readings are the values from 2^63 up.
ULt(a, b) ==
    IF (a < 0) = (b < 0) THEN a < b ELSE b < 0

UGe(a, b) ==
    ~ULt(a, b)

\* `len - 1` on usize.  len = 0 overflows: a panic where the build checks
\* overflow (debug), usize::MAX where it does not (release).
LenMinusOne(len) ==
    IF len = 0
    THEN {[panic |-> TRUE, v |-> 0], [panic |-> FALSE, v |-> 0 - 1]}
    ELSE {[panic |-> FALSE, v |-> len - 1]}

----------------------------------------------------------------------------
(* DataSeries and the csv file                                             *)

GraphName ==
    <<"G", "r", "a", "p", "h">>

\* DataSeries::new()
NewDataSeries ==
    [name |-> GraphName, data |-> <<>>]

\* The header record write_csv writes.
Header ==
    <<<<"n", "a", "m", "e">>, <<"x">>, <<"y">>>>

\* The records of write_csv: the header, then one record per point, series
\* by series.
RECURSIVE PointRecords(_, _)
PointRecords(name, data) ==
    IF data = <<>> THEN <<>>
    ELSE <<<<name, F64ToString(data[1][1]), F64ToString(data[1][2])>>>>
         \o PointRecords(name, Tail(data))

RECURSIVE SeriesRecords(_)
SeriesRecords(ds) ==
    IF ds = <<>> THEN <<>>
    ELSE PointRecords(ds[1].name, ds[1].data) \o SeriesRecords(Tail(ds))

write_csv_records(ds) ==
    <<Header>> \o SeriesRecords(ds)

\* series_map.entry(name).or_insert_with(Vec::new).push((x, y)); the map is
\* kept as the sequence of its entries in first-seen order.
AddPoint(groups, name, p) ==
    IF \E i \in 1..Len(groups) : groups[i].name = name
    THEN [i \in 1..Len(groups) |->
            IF groups[i].name = name
            THEN [groups[i] EXCEPT !.data = Append(@, p)]
            ELSE groups[i]]
    ELSE Append(groups, [name |-> name, data |-> <<p>>])

\* Mutant of ReadRecords: the first failing record ends the loop with Ok and
\* the groups read so far.
RECURSIVE ReadRecordsStopAtBad(_, _, _)
ReadRecordsStopAtBad(rows, width, groups) ==
    IF rows = <<>> THEN [ok |-> TRUE, err |-> "", groups |-> groups]
    ELSE LET rec == Head(rows)
         IN  IF Len(rec) # width \/ Len(rec) < 3
                \/ ~ParseF64(rec[2]).ok \/ ~ParseF64(rec[3]).ok
             THEN [ok |-> TRUE, err |-> "", groups |-> groups]
             ELSE ReadRecordsStopAtBad(Tail(rows), width,
                      AddPoint(groups, rec[1],
                               <<ParseF64(rec[2]).val, ParseF64(rec[3]).val>>))

\* Mutant of ReadRecords: a record that fails is skipped and the loop goes on.
RECURSIVE ReadRecordsSkipBad(_, _, _)
ReadRecordsSkipBad(rows, width, groups) ==
    IF rows = <<>> THEN [ok |-> TRUE, err |-> "", groups |-> groups]
    ELSE LET rec == Head(rows)
         IN  IF Len(rec) # width \/ Len(rec) < 3
                \/ ~ParseF64(rec[2]).ok \/ ~ParseF64(rec[3]).ok
             THEN ReadRecordsSkipBad(Tail(rows), width, groups)
             ELSE ReadRecordsSkipBad(Tail(rows), width,
                      AddPoint(groups, rec[1],
                               <<ParseF64(rec[2]).val, ParseF64(rec[3]).val>>))

\* The record loop of read_csv over the records after the header: the
\* first failing record ends it.  width is the header's field count (the
\* reader is not flexible: a record of another length is an error).
RECURSIVE ReadRecords(_, _, _)
ReadRecords(rows, width, groups) ==
    IF rows = <<>> THEN [ok |-> TRUE, err |-> "", groups |-> groups]
    ELSE LET rec == Head(rows)
             bad(e) == [ok |-> FALSE, err |-> e, groups |-> <<>>]
         IN  IF Len(rec) # width THEN bad("csv: unequal lengths")
             ELSE IF Len(rec) < 1 THEN bad("Missing name")
             ELSE IF Len(rec) < 2 THEN bad("Missing x")
             ELSE IF ~ParseF64(rec[2]).ok THEN bad("invalid float literal")
             ELSE IF Len(rec) < 3 THEN bad("Missing y")
             ELSE IF ~ParseF64(rec[3]).ok THEN bad("invalid float literal")
             ELSE ReadRecords(Tail(rows), width,
                      AddPoint(groups, rec[1],
                               <<ParseF64(rec[2]).val, ParseF64(rec[3]).val>>))

\* read_csv up to the end of the record loop: [ok, err, groups].
read_csv(f) ==
    IF ~f.exists THEN [ok |-> FALSE, err |-> "io", groups |-> <<>>]
    ELSE IF f.recs = <<>> THEN [ok |-> TRUE, err |-> "", groups |-> <<>>]
    ELSE ReadRecords(Tail(f.recs), Len(f.recs[1]), <<>>)

\* The orders in which the HashMap may yield n entries.
Orders(n) ==
    {o \in [1..n -> 1..n] : \A i, j \in 1..n : o[i] = o[j] => i = j}

\* The second loop of read_csv for one iteration order: each group sorted
\* and pushed.
SortedSeries(groups, o) ==
    [i \in 1..Len(groups) |->
        [name |-> groups[o[i]].name, data |-> SortByX(groups[o[i]].data)]]

----------------------------------------------------------------------------
(* The data.csv files a session may start from                             *)

Rec(name, x, y) ==
    <<<<name>>, x, y>>

FileMissing ==
    [exists |-> FALSE, recs |-> <<>>]

FileHeaderOnly ==
    [exists |-> TRUE, recs |-> <<Header>>]

\* One series, rows out of order and with a tie in x.
FileOneSeries ==
    [exists |-> TRUE,
     recs |-> <<Header,
                Rec("A", <<"2">>, <<"1">>),
                Rec("A", <<"1">>, <<"1">>),
                Rec("A", <<"2">>, <<"2">>)>>]

\* Two series, rows interleaved.
FileTwoSeries ==
    [exists |-> TRUE,
     recs |-> <<Header,
                Rec("A", <<"3">>, <<"4">>),
                Rec("B", <<"0", ".", "5">>, <<"-", "1">>),
                Rec("A", <<"1">>, <<"2">>)>>]

\* A non-numeric x after a good row.
FileBadNumber ==
    [exists |-> TRUE,
     recs |-> <<Header,
                Rec("A", <<"1">>, <<"1">>),
                Rec("A", <<"x">>, <<"1">>)>>]

\* A row without its y field between two good rows.
FileShortRow ==
    [exists |-> TRUE,
     recs |-> <<Header,
                Rec("A", <<"1">>, <<"1">>),
                <<<<"A">>, <<"2">>>>,
                Rec("A", <<"3">>, <<"3">>)>>]

\* A NaN x, alone in its series and beside another point.
FileOneNaN ==
    [exists |-> TRUE,
     recs |-> <<Header, Rec("A", <<"N", "a", "N">>, <<"1">>)>>]

FileTwoNaN ==
    [exists |-> TRUE,
     recs |-> <<Header,
                Rec("A", <<"1">>, <<"1">>),
                Rec("A", <<"N", "a", "N">>, <<"2">>)>>]

Files ==
    {FileMissing, FileHeaderOnly, FileOneSeries, FileTwoSeries,
     FileBadNumber, FileShortRow, FileOneNaN, FileTwoNaN}

----------------------------------------------------------------------------
(* Key intents                                                             *)

\* KeyCode::Char(c): the letters the handlers name, the input characters
\* '1' and '-', and 'x' for any other character.
CharKeys ==
    {"q", "g", "m", "h", "t", "i", "d", "k", "j", "1", "-", "x"}

Keys ==
    CharKeys \cup {"Backspace", "Tab", "Enter", "Left", "Right", "Esc",
                   "Up", "Down"}

\* The keys of the sessions of SpecInput, which stay in the Graph view: the
\* characters (three of them input characters) and the editing keys.
InputCharKeys ==
    {"q", "i", "x", "1", ".", "-"}

InputKeys ==
    InputCharKeys \cup {"Backspace", "Tab", "Enter", "Left", "Right", "Esc"}

\* Status texts: the format string and its arguments.
Status(kind, err, x, y) ==
    [kind |-> kind, err |-> err, x |-> x, y |-> y]

StatusHelp ==
    Status("h: help", "", Fin(FALSE, 0), Fin(FALSE, 0))

StatusLoadFailed(e) ==
    Status("Could not load data.csv: {}", e, Fin(FALSE, 0), Fin(FALSE, 0))

StatusSaveFailed(e) ==
    Status("Could not write to data.csv (Press any ket to exit): {}", e,
           Fin(FALSE, 0), Fin(FALSE, 0))

StatusInserted(x, y) ==
    Status("Inserted point ({:.2}, {:.2})", "", x, y)

StatusInputError ==
    Status("Error: enter valid numbers for x and y", "",
           Fin(FALSE, 0), Fin(FALSE, 0))

----------------------------------------------------------------------------
(* App::new and App::run up to the main loop                               *)

Init ==
    /\ pc = "load"
    /\ file \in Files
    /\ mode = "Graph"
    /\ data_series = <<>>
    /\ selected_serie = 0
    /\ input_mode = "Normal"
    /\ input_field = "X"
    /\ input_x = <<>>
    /\ input_y = <<>>
    /\ status_msg = StatusHelp
    /\ table_state = <<>>
    /\ confirm_delete = FALSE
    /\ confirm_idx = 0
    /\ exit = FALSE

\* A panic: the process ends where it is.
Panic ==
    /\ pc' = "crashed"
    /\ UNCHANGED appvars

\* Mutant of AddSeriesIfNone: no series is added.
AddSeriesIfNone_Never(ds) ==
    ds

\* "Add series if none"
AddSeriesIfNone(ds) ==
    IF ds = <<>> THEN <<NewDataSeries>> ELSE ds

\* read_csv panics in its second loop when a group's sort does.
LoadPanics(r) ==
    r.ok /\ \E i \in 1..Len(r.groups) : SortPanics(r.groups[i].data)

\* data_series when the main loop starts, for each outcome of run's lines
\* 181-190 on the read result r: the fallback series after an Err, else
\* the groups in one of the map's orders, and a series if there is none.
LoadedStores(ds, r) ==
    IF ~r.ok
    THEN {AddSeriesIfNone(Append(ds, NewDataSeries))}
    ELSE {AddSeriesIfNone(ds \o SortedSeries(r.groups, o)) :
          o \in Orders(Len(r.groups))}

\* run, lines 181-190: read_csv, the fallback series, the series if none.
RunLoad ==
    /\ pc = "load"
    /\ UNCHANGED file
    /\ LET r == read_csv(file)
       IN  IF LoadPanics(r)
           THEN Panic
           ELSE \E ds \in LoadedStores(data_series, r) :
                /\ data_series' = ds
                /\ status_msg' = IF r.ok THEN status_msg
                                 ELSE StatusLoadFailed(r.err)
                /\ pc' = "draw"
                /\ UNCHANGED <<mode, selected_serie, inputvars, tablevars, exit>>

\* The active series' data: data_series[selected_serie].data.
ActiveData ==
    data_series[selected_serie + 1].data

----------------------------------------------------------------------------
(* draw                                                                    *)

\* What rendering the table widget leaves in table_state.selected for n
\* rows.  The widget returns before it touches the state when its inner
\* area is empty (a small terminal); otherwise a selection past the last
\* row becomes the last row, and no row leaves no selection.
RenderSelected(sel, n, area_empty) ==
    IF area_empty THEN sel
    ELSE IF n = 0 THEN <<>>
    ELSE IF sel # <<>> /\ UGe(sel[1], n) THEN <<n - 1>>
    ELSE sel

\* The status text a frame of view m displays, as a sequence of at most one
\* text: draw_graph_view renders status_msg in the input bar, and neither
\* draw_menu_view, draw_table_view nor draw_help_view reads it.
FrameStatus(m, msg) ==
    IF m = "Graph" THEN <<msg>> ELSE <<>>

\* terminal.draw(|frame| self.draw(frame)): in the main loop and after a
\* failed save.  Only draw_table_view writes state.
Draw ==
    /\ pc \in {"draw", "ack_draw"}
    /\ IF mode = "Table"
       THEN \E area_empty \in BOOLEAN :
                table_state' = RenderSelected(table_state, Len(ActiveData), area_empty)
       ELSE UNCHANGED table_state
    /\ pc' = IF pc = "draw" THEN "events" ELSE "ack_wait"
    /\ UNCHANGED <<file, mode, storevars, inputvars, status_msg,
                   confirm_delete, confirm_idx, exit>>

----------------------------------------------------------------------------
(* Table view                                                              *)

\* Mutant of Continue: the loop does not test the exit flag.
Continue_IgnoresExit ==
    pc' = "draw"

\* The loop condition after a handler returns.
Continue ==
    pc' = IF exit' THEN "save" ELSE "draw"

\* select_previous (bound to Down / j): [panic, sel] for each outcome.
select_previous(sel, len) ==
    IF sel = <<>> THEN {[panic |-> FALSE, sel |-> <<0>>]}
    ELSE {[panic |-> m.panic,
           sel |-> IF m.panic THEN sel
                   ELSE IF UGe(sel[1], m.v) THEN <<0>> ELSE <<sel[1] + 1>>] :
          m \in LenMinusOne(len)}

\* Mutant of select_next: row 0 stays row 0 (no wrap to the last row).
select_next_nowrap(sel, len) ==
    IF sel = <<>> THEN {[panic |-> FALSE, sel |-> <<0>>]}
    ELSE IF sel[1] = 0
    THEN {[panic |-> FALSE, sel |-> <<0>>]}
    ELSE {[panic |-> FALSE, sel |-> <<sel[1] - 1>>]}

\* select_next (bound to Up / k): [panic, sel] for each outcome.
select_next(sel, len) ==
    IF sel = <<>> THEN {[panic |-> FALSE, sel |-> <<0>>]}
    ELSE IF sel[1] = 0
    THEN {[panic |-> m.panic, sel |-> IF m.panic THEN sel ELSE <<m.v>>] :
          m \in LenMinusOne(len)}
    ELSE {[panic |-> FALSE, sel |-> <<sel[1] - 1>>]}

\* cycle_confirm_idx
cycle_confirm_idx(idx) ==
    IF idx = 1 THEN 0 ELSE IF idx = 0 THEN 1 ELSE 0

\* Mutant of ConfirmEnter: the selected row is removed whatever the choice.
ConfirmEnter_IgnoresChoice(data, sel, idx) ==
    IF sel # <<>> /\ sel[1] \in 0..(Len(data) - 1)
    THEN <<Remove(data, sel[1]), FALSE>>
    ELSE <<data, FALSE>>

\* The arm of KeyCode::Enter, lines 494-503, for the outcomes that do not
\* panic: <<data, confirm_delete>>.
ConfirmEnter(data, sel, idx) ==
    IF idx = 0
    THEN IF sel # <<>>
         THEN <<Remove(data, sel[1]), FALSE>>
         ELSE <<data, TRUE>>
    ELSE <<data, FALSE>>

\* Vec::remove(i) panics when i >= len.
ConfirmEnterPanics(data, sel, idx) ==
    idx = 0 /\ sel # <<>> /\ UGe(sel[1], Len(data))

\* An arm that only moves the selection.
Navigate(outcomes) ==
    \E o \in outcomes :
        IF o.panic THEN Panic
        ELSE /\ table_state' = o.sel
             /\ UNCHANGED <<mode, storevars, inputvars, status_msg,
                            confirm_delete, confirm_idx, exit>>
             /\ Continue

\* An arm that only sets the view mode.
SetMode(m) ==
    /\ mode' = m
    /\ UNCHANGED <<storevars, inputvars, status_msg, tablevars, exit>>
    /\ Continue

\* Mutant of SetExit: the q arm is taken and the flag is not set.
SetExit_Forgets ==
    /\ UNCHANGED appvars
    /\ Continue

\* An arm that only sets the exit flag.
SetExit ==
    /\ exit' = TRUE
    /\ UNCHANGED <<mode, storevars, inputvars, status_msg, tablevars>>
    /\ Continue

\* The `_ => {}` arm.
Ignore ==
    /\ UNCHANGED appvars
    /\ Continue

handle_table_input(key) ==
    IF ~confirm_delete
    THEN IF key = "q" THEN SetExit
         ELSE IF key = "g" THEN SetMode("Graph")
         ELSE IF key = "m" THEN SetMode("Menu")
         ELSE IF key = "h" THEN SetMode("Help")
         ELSE IF key \in {"Up", "k"}
         THEN Navigate(select_next(table_state, Len(ActiveData)))
         ELSE IF key \in {"Down", "j"}
         THEN Navigate(select_previous(table_state, Len(ActiveData)))
         ELSE IF key = "d"
         THEN /\ confirm_delete' = TRUE
              /\ UNCHANGED <<mode, storevars, inputvars, status_msg,
                             table_state, confirm_idx, exit>>
              /\ Continue
         ELSE IF key = "Esc" THEN SetMode("Menu")
         ELSE Ignore
    ELSE IF key \in {"Esc", "Left", "Right", "Tab"}
         THEN /\ confirm_delete' = IF key = "Esc" THEN FALSE ELSE confirm_delete
              /\ confirm_idx' = IF key = "Left" THEN 0
                                ELSE IF key = "Right" THEN 1
                                ELSE IF key = "Tab" THEN cycle_confirm_idx(confirm_idx)
                                ELSE confirm_idx
              /\ UNCHANGED <<mode, storevars, inputvars, status_msg,
                             table_state, exit>>
              /\ Continue
         ELSE IF key = "Enter"
         THEN IF ConfirmEnterPanics(ActiveData, table_state, confirm_idx)
              THEN Panic
              ELSE LET r == ConfirmEnter(ActiveData, table_state, confirm_idx)
                   IN  /\ data_series' =
                              [data_series EXCEPT ![selected_serie + 1].data = r[1]]
                       /\ confirm_delete' = r[2]
                       /\ UNCHANGED <<mode, selected_serie, inputvars,
                                      status_msg, table_state, confirm_idx, exit>>
                       /\ Continue
         ELSE Ignore

\* handle_help_input
handle_help_input(key) ==
    IF key = "q" THEN SetExit
    ELSE IF key = "g" THEN SetMode("Graph")
    ELSE IF key = "m" THEN SetMode("Menu")
    ELSE IF key = "t" THEN SetMode("Table")
    ELSE IF key = "Esc" THEN SetMode("Menu")
    ELSE Ignore

\* handle_menu_input
handle_menu_input(key) ==
    IF key = "q" THEN SetExit
    ELSE IF key = "g" THEN SetMode("Graph")
    ELSE IF key = "t" THEN SetMode("Table")
    ELSE IF key = "h" THEN SetMode("Help")
    ELSE Ignore

----------------------------------------------------------------------------
(* Graph view and the Insert sub-mode                                      *)

\* The length cap of input_x and input_y.
InputCap ==
    5

\* cycle_field
cycle_field(f) ==
    IF f = "X" THEN "Y" ELSE "X"

\* The guard of the character arm: c.is_ascii_digit() || c == '.' || c == '-'
IsInputChar(c) ==
    IsAsciiDigit(c) \/ c = "." \/ c = "-"

\* Mutant of PushChar: the character is pushed whatever the length.
PushChar_NoCap(buf, c) ==
    Append(buf, c)

\* if buf.len() < 5 { buf.push(c) }
PushChar(buf, c) ==
    IF Len(buf) < InputCap THEN Append(buf, c) ELSE buf

\* String::pop
Pop(buf) ==
    IF buf = <<>> THEN buf ELSE SubSeq(buf, 1, Len(buf) - 1)

\* Mutant of InsertPoint: the point is pushed and the vector is not sorted.
InsertPoint_NoSort(data, x, y) ==
    Append(data, <<x, y>>)

\* serie.data.push((x, y)); serie.data.sort_by(..)
InsertPoint(data, x, y) ==
    SortByX(Append(data, <<x, y>>))

\* try_insert_point panics when the sort compares a NaN.
TryInsertPanics ==
    /\ ParseF64(input_x).ok
    /\ ParseF64(input_y).ok
    /\ SortPanics(Append(ActiveData,
                         <<ParseF64(input_x).val, ParseF64(input_y).val>>))

\* Mutant of try_insert_point: the failure arm leaves Insert mode and clears
\* the buffers as the success arm does.
try_insert_point_resets ==
    LET px == ParseF64(input_x)
        py == ParseF64(input_y)
    IN  IF px.ok /\ py.ok
        THEN /\ data_series' =
                    [data_series EXCEPT ![selected_serie + 1].data =
                        SortByX(Append(@, <<px.val, py.val>>))]
             /\ input_mode' = "Normal"
             /\ input_x' = <<>>
             /\ input_y' = <<>>
             /\ status_msg' = StatusInserted(px.val, py.val)
        ELSE /\ status_msg' = StatusInputError
             /\ input_mode' = "Normal"
             /\ input_x' = <<>>
             /\ input_y' = <<>>
             /\ UNCHANGED data_series

\* try_insert_point, when it does not panic.
try_insert_point ==
    LET px == ParseF64(input_x)
        py == ParseF64(input_y)
    IN  IF px.ok /\ py.ok
        THEN /\ data_series' =
                    [data_series EXCEPT ![selected_serie + 1].data =
                        InsertPoint(@, px.val, py.val)]
             /\ input_mode' = "Normal"
             /\ input_x' = <<>>
             /\ input_y' = <<>>
             /\ status_msg' = StatusInserted(px.val, py.val)
        ELSE /\ status_msg' = StatusInputError
             /\ UNCHANGED <<data_series, input_mode, input_x, input_y>>

\* Mutant of CommitReady: Enter always tries the insert.
CommitReady_Always(x, y) ==
    TRUE

\* The guard of the Enter arm: both buffers hold something.
CommitReady(x, y) ==
    y # <<>> /\ x # <<>>

handle_graph_input(key) ==
    IF input_mode = "Normal"
    THEN IF key = "q" THEN SetExit
         ELSE IF key = "h" THEN SetMode("Help")
         ELSE IF key = "m" THEN SetMode("Menu")
         ELSE IF key = "t" THEN SetMode("Table")
         ELSE IF key = "i"
         THEN /\ input_mode' = "Insert"
              /\ input_field' = "X"
              /\ input_x' = <<>>
              /\ input_y' = <<>>
              /\ status_msg' = StatusHelp
              /\ UNCHANGED <<mode, storevars, tablevars, exit>>
              /\ Continue
         ELSE IF key = "Esc" THEN SetMode("Menu")
         ELSE Ignore
    ELSE IF IsInputChar(key)
         THEN /\ input_x' = IF input_field = "X" THEN PushChar(input_x, key)
                            ELSE input_x
              /\ input_y' = IF input_field = "Y" THEN PushChar(input_y, key)
                            ELSE input_y
              /\ UNCHANGED <<mode, storevars, input_mode, input_field,
                             status_msg, tablevars, exit>>
              /\ Continue
         ELSE IF key = "Backspace"
         THEN /\ input_x' = IF input_field = "X" THEN Pop(input_x) ELSE input_x
              /\ input_y' = IF input_field = "Y" THEN Pop(input_y) ELSE input_y
              /\ UNCHANGED <<mode, storevars, input_mode, input_field,
                             status_msg, tablevars, exit>>
              /\ Continue
         ELSE IF key \in {"Tab", "Left", "Right"}
         THEN /\ input_field' = IF key = "Tab" THEN cycle_field(input_field)
                                ELSE IF key = "Left" THEN "X" ELSE "Y"
              /\ UNCHANGED <<mode, storevars, input_mode, input_x, input_y,
                             status_msg, tablevars, exit>>
              /\ Continue
         ELSE IF key = "Enter"
         THEN IF CommitReady(input_x, input_y) /\ TryInsertPanics
              THEN Panic
              ELSE /\ input_field' = cycle_field(input_field)
                   /\ IF CommitReady(input_x, input_y)
                      THEN try_insert_point
                      ELSE UNCHANGED <<data_series, input_mode, input_x,
                                       input_y, status_msg>>
                   /\ UNCHANGED <<mode, selected_serie, tablevars, exit>>
                   /\ Continue
         ELSE IF key = "Esc"
         THEN /\ input_mode' = "Normal"
              /\ input_x' = <<>>
              /\ input_y' = <<>>
              /\ status_msg' = StatusHelp
              /\ UNCHANGED <<mode, storevars, input_field, tablevars, exit>>
              /\ Continue
         ELSE Ignore

----------------------------------------------------------------------------
(* The main loop and the shutdown                                          *)

\* Mutant of handle_events: m opens the menu from every view, whatever the
\* sub-mode.
handle_events_GlobalMenu(key) ==
    /\ pc = "events"
    /\ UNCHANGED file
    /\ IF key = "m" THEN SetMode("Menu")
       ELSE IF mode = "Graph" THEN handle_graph_input(key)
       ELSE IF mode = "Table" THEN handle_table_input(key)
       ELSE IF mode = "Menu" THEN handle_menu_input(key)
       ELSE handle_help_input(key)

\* handle_events for a key press.
handle_events(key) ==
    /\ pc = "events"
    /\ UNCHANGED file
    /\ IF mode = "Graph" THEN handle_graph_input(key)
       ELSE IF mode = "Table" THEN handle_table_input(key)
       ELSE IF mode = "Menu" THEN handle_menu_input(key)
       ELSE handle_help_input(key)

\* The outcomes of write_csv: Ok, File::create failed (the file is as it
\* was), a write failed after the file was created (truncated).
write_csv ==
    /\ pc = "save"
    /\ \E outcome \in {"ok", "create failed", "write failed"} :
        IF outcome = "ok"
        THEN /\ file' = [exists |-> TRUE, recs |-> write_csv_records(data_series)]
             /\ pc' = "done"
             /\ UNCHANGED status_msg
        ELSE /\ file' = IF outcome = "create failed" THEN file
                        ELSE [exists |-> TRUE, recs |-> <<>>]
             /\ status_msg' = StatusSaveFailed(outcome)
             /\ pc' = "ack_draw"
    /\ UNCHANGED <<mode, storevars, inputvars, tablevars, exit>>

\* event::read() after the frame that shows the save failure.
AckKey ==
    /\ pc = "ack_wait"
    /\ pc' = "done"
    /\ UNCHANGED <<file, appvars>>

\* The intents the exploration issues (see the bounds).
Explored(key) ==
    /\ pc = "events"
    /\ (mode = "Graph" /\ input_mode = "Insert" /\ IsInputChar(key))
            => Len(input_x) + Len(input_y) < MaxTyped
    /\ (mode = "Graph" /\ input_mode = "Normal" /\ key = "i")
            => Len(ActiveData) < MaxPoints
    /\ (mode = "Table" /\ ~confirm_delete /\ key \in {"Up", "k", "Down", "j"}
          /\ table_state # <<>>)
            => /\ table_state[1] < Len(ActiveData) + MaxStale
               /\ table_state[1] >= 0 - MaxStale

Next ==
    \/ RunLoad
    \/ Draw
    \/ \E key \in Keys : Explored(key) /\ handle_events(key)
    \/ write_csv
    \/ AckKey

Spec ==
    Init /\ [][Next]_vars

\* Sessions without a successful commit: every intent of Spec but Enter in
\* Insert mode on two buffers that parse.
ExploredNoCommit(key) ==
    /\ Explored(key)
    /\ ~(/\ mode = "Graph"
          /\ input_mode = "Insert"
          /\ key = "Enter"
          /\ ParseF64(input_x).ok
          /\ ParseF64(input_y).ok)

NextNoCommit ==
    \/ RunLoad
    \/ Draw
    \/ \E key \in Keys : ExploredNoCommit(key) /\ handle_events(key)
    \/ write_csv
    \/ AckKey

SpecNoCommit ==
    Init /\ [][NextNoCommit]_vars

\* Sessions on the input bar: data.csv is missing or holds only the header,
\* the view stays Graph, every buffer content over '1', '.', '-' within the
\* bound is typed, and Insert mode is entered while the series is empty.
InitInput ==
    Init /\ file \in {FileMissing, FileHeaderOnly}

ExploredInput(key) ==
    /\ pc = "events"
    /\ (input_mode = "Insert" /\ IsInputChar(key))
            => Len(input_x) + Len(input_y) < MaxInputTyped
    /\ (input_mode = "Normal" /\ key = "i") => ActiveData = <<>>

NextInput ==
    \/ RunLoad
    \/ Draw
    \/ \E key \in InputKeys : ExploredInput(key) /\ handle_events(key)
    \/ write_csv
    \/ AckKey

SpecInput ==
    InitInput /\ [][NextInput]_vars

----------------------------------------------------------------------------
(* Properties                                                              *)

\* a <= b on f64.
FLe(a, b) ==
    PartialCmp(a, b) \in {"less", "equal"}

IsSortedByX(data) ==
    \A i \in 1..(Len(data) - 1) : FLe(data[i][1], data[i + 1][1])

\* d1 and d2 hold the same points, each as many times.
SamePoints(d1, d2) ==
    /\ Len(d1) = Len(d2)
    /\ \E o \in Orders(Len(d1)) : \A i \in 1..Len(d1) : d1[i] = d2[o[i]]

Names(ds) ==
    {ds[i].name : i \in 1..Len(ds)}

\* The handler is about to read a key in the main loop.
AtKey ==
    pc = "events"

\* C1: in every reachable state each series' data is sorted non-decreasing
\* by x (after load, after every commit, after every delete).
C1_SortedByX ==
    \A s \in 1..Len(data_series) : IsSortedByX(data_series[s].data)

\* C1 witness: a committed point was moved in front of a point with a
\* greater x.
C1_Witness ==
    /\ pc = "draw"
    /\ status_msg.kind = StatusInserted(NaN, NaN).kind
    /\ Len(ActiveData) >= 2
    /\ ActiveData[1] = <<status_msg.x, status_msg.y>>
    /\ FLt(ActiveData[1][1], ActiveData[2][1])

\* C2: Enter in Insert mode while the X or the Y buffer is empty or does not
\* parse as a number leaves every series unchanged, keeps Insert mode and
\* leaves both buffers with their content.
C2_FailedCommit ==
    [][(/\ AtKey
        /\ mode = "Graph"
        /\ input_mode = "Insert"
        /\ ~ParseF64(input_x).ok \/ ~ParseF64(input_y).ok
        /\ handle_events("Enter"))
       => (/\ data_series' = data_series
           /\ input_mode' = "Insert"
           /\ input_x' = input_x
           /\ input_y' = input_y)]_vars

\* C2 witness: a commit was refused with a non-empty X buffer that is no
\* number.
C2_Witness ==
    /\ pc = "draw"
    /\ input_mode = "Insert"
    /\ status_msg = StatusInputError
    /\ input_x # <<>>
    /\ ~ParseF64(input_x).ok

\* The save at shutdown returned Ok.
SavedOk ==
    pc = "done" /\ status_msg.kind # StatusSaveFailed("").kind

\* The stores a and b hold the same series names and, name by name, the
\* same points sorted by x.
SameStore(a, b) ==
    /\ Names(a) = Names(b)
    /\ \A i \in 1..Len(a) : \A j \in 1..Len(b) :
          a[i].name = b[j].name
              => /\ SamePoints(a[i].data, b[j].data)
                 /\ IsSortedByX(a[i].data)

\* C3: round trip: the save at shutdown followed by the load of the next
\* startup yields a store with the same series names and, per name, the
\* same points sorted by x.
C3_RoundTrip ==
    SavedOk
        => LET r == read_csv(file)
           IN  /\ ~LoadPanics(r)
               /\ \A ds \in LoadedStores(<<>>, r) : SameStore(ds, data_series)

\* The file is missing, or a row after the header misses a field or holds
\* an x or y that is no number.
BadFile(f) ==
    \/ ~f.exists
    \/ \E i \in 2..Len(f.recs) :
          \/ Len(f.recs[i]) < 3
          \/ ~ParseF64(f.recs[i][2]).ok
          \/ ~ParseF64(f.recs[i][3]).ok

\* C4: when the startup load fails the main loop starts with exactly one
\* series, "Graph", with no data, a load-failure status and the Graph view.
C4_LoadFailure ==
    [][(pc = "load" /\ BadFile(file))
       => (/\ pc' = "draw"
           /\ data_series' = <<[name |-> GraphName, data |-> <<>>]>>
           /\ status_msg'.kind = StatusLoadFailed("").kind
           /\ mode' = "Graph")]_vars

\* C4 witness: the main loop started after a load that failed on a row that
\* follows a good row.
C4_Witness ==
    /\ pc = "draw"
    /\ file \in {FileBadNumber, FileShortRow}
    /\ ParseF64(file.recs[2][2]).ok
    /\ status_msg.kind = StatusLoadFailed("").kind
    /\ data_series = <<NewDataSeries>>

\* C5: from the start of the main loop on, the store holds at least one
\* series and selected_serie is an index of it.
C5_SelectedSerieValid ==
    /\ pc \in {"draw", "events", "save", "ack_draw", "ack_wait", "done"}
          => data_series # <<>>
    /\ data_series # <<>>
          => selected_serie >= 0 /\ selected_serie < Len(data_series)

\* C5 witness: the main loop runs after the load of a header-only file.
C5_Witness ==
    /\ pc = "events"
    /\ file = FileHeaderOnly
    /\ Len(data_series) = 1
    /\ selected_serie = 0

\* C6: in Table mode, no confirmation pending, n >= 1 rows: Down / j moves
\* the selection from row i to row i+1 and from the last row to row 0;
\* Up / k moves it from row i to row i-1 and from row 0 to row n-1; with no
\* row selected either selects row 0.
C6_Navigation ==
    [][(/\ AtKey
        /\ mode = "Table"
        /\ ~confirm_delete
        /\ Len(ActiveData) >= 1
        /\ table_state # <<>> => table_state[1] \in 0..(Len(ActiveData) - 1))
       => LET n == Len(ActiveData)
              down == IF table_state = <<>> THEN <<0>>
                      ELSE IF table_state[1] = n - 1 THEN <<0>>
                      ELSE <<table_state[1] + 1>>
              up == IF table_state = <<>> THEN <<0>>
                    ELSE IF table_state[1] = 0 THEN <<n - 1>>
                    ELSE <<table_state[1] - 1>>
          IN  /\ \A key \in {"Down", "j"} :
                    handle_events(key) => table_state' = down /\ pc' = "draw"
              /\ \A key \in {"Up", "k"} :
                    handle_events(key) => table_state' = up /\ pc' = "draw"]_vars

\* C6 witness: with 3 rows the last row is selected right after a key.
C6_Witness ==
    /\ pc = "draw"
    /\ mode = "Table"
    /\ Len(ActiveData) = 3
    /\ table_state = <<2>>

\* C7: while the active series is empty, every Up / k / Down / j in Table
\* mode is a no-op: the selection stays unset, the store is unchanged and
\* the handler does not panic.
C7_EmptySeriesNavigation ==
    [][(/\ AtKey
        /\ mode = "Table"
        /\ ~confirm_delete
        /\ ActiveData = <<>>
        /\ \E key \in {"Up", "k", "Down", "j"} : handle_events(key))
       => (/\ data_series' = data_series
           /\ pc' # "crashed"
           /\ table_state = <<>> => table_state' = <<>>)]_vars

\* C8: every entry into the delete confirmation starts with choice Delete
\* (confirm_idx = 0).
C8_ConfirmStartsAtDelete ==
    [][(~confirm_delete /\ confirm_delete') => confirm_idx' = 0]_vars

\* C9: while the delete confirmation is active, Enter always ends it; it
\* removes a point only if the choice is Delete, and then exactly the
\* selected row of the active series; Esc ends it and leaves the store.
C9_ConfirmEnter ==
    [][(AtKey /\ mode = "Table" /\ confirm_delete)
       => (/\ handle_events("Enter")
                => /\ ~confirm_delete'
                   /\ IF confirm_idx = 0 /\ table_state # <<>>
                      THEN /\ table_state[1] \in 0..(Len(ActiveData) - 1)
                           /\ data_series' =
                                  [data_series EXCEPT ![selected_serie + 1].data =
                                      Remove(@, table_state[1])]
                      ELSE data_series' = data_series
           /\ handle_events("Esc")
                => ~confirm_delete' /\ data_series' = data_series)]_vars

\* C10: d in Table mode activates the delete confirmation only when a row
\* is selected; with no row selected it changes nothing.
C10_DeleteRequest ==
    [][(AtKey /\ mode = "Table" /\ ~confirm_delete /\ handle_events("d"))
       => IF table_state = <<>>
          THEN UNCHANGED appvars
          ELSE confirm_delete']_vars

\* Insert mode or the delete confirmation is active.
InSubMode ==
    \/ mode = "Graph" /\ input_mode = "Insert"
    \/ mode = "Table" /\ confirm_delete

\* C11 as stated: q sets the exit flag in every reachable state, Insert
\* mode and the delete confirmation included.
C11_QuitEverywhere ==
    [][(AtKey /\ handle_events("q")) => exit']_vars

\* C11: q sets the exit flag in each of the views Graph, Table, Menu and
\* Help while neither Insert mode nor the delete confirmation is active, and
\* the loop then goes to the save; while Insert mode or the delete
\* confirmation is active q changes nothing and the loop goes on.
C11_QuitOutsideSubModes ==
    [][(AtKey /\ handle_events("q"))
       => IF InSubMode
          THEN UNCHANGED appvars /\ pc' = "draw"
          ELSE exit' /\ pc' = "save"]_vars

\* C11 witness: q was pressed in the Table view with a row selected and no
\* confirmation pending, and the loop has ended.
C11_Witness ==
    /\ pc = "save"
    /\ exit
    /\ mode = "Table"
    /\ table_state # <<>>
    /\ ~confirm_delete

\* C12: shutdown protocol.  While exit is unset the loop is before the save
\* (no save attempt); once it is set the loop handles no further key, the
\* store no longer changes, the save is attempted once (a successful save
\* writes the records of the current store and ends the run; a failed one
\* is followed by one frame and one wait, then the run ends) and it is
\* never attempted again.
C12_Shutdown ==
    /\ [](exit <=> pc \in {"save", "ack_draw", "ack_wait", "done"})
    /\ [][/\ exit => UNCHANGED <<storevars, mode, inputvars, confirm_delete,
                                confirm_idx, exit>>
          /\ pc' = "save" => pc = "events" /\ ~exit
          /\ pc = "save"
                => \/ /\ pc' = "done"
                      /\ file' = [exists |-> TRUE,
                                   recs |-> write_csv_records(data_series)]
                   \/ /\ pc' = "ack_draw"
                      /\ status_msg'.kind = StatusSaveFailed("").kind
          /\ pc = "ack_draw" => pc' = "ack_wait" /\ file' = file
          /\ pc = "ack_wait" => pc' = "done" /\ file' = file
          /\ pc # "done"]_vars

\* C12 witness: the run ended after a failed save of a store with a point
\* in it, the file being as it was at startup.
C12_Witness ==
    /\ pc = "done"
    /\ exit
    /\ status_msg.kind = StatusSaveFailed("").kind
    /\ ActiveData # <<>>
    /\ file \in Files

\* C13: after a failed save, in whatever view the user quit from, exactly
\* one more frame is rendered and it displays the save-failure message; the
\* run then waits for one key and ends.
C13_SaveFailureShown ==
    [][/\ (pc = "save" /\ pc' # "done") => pc' = "ack_draw"
       /\ pc = "ack_draw"
             => /\ pc' = "ack_wait"
                /\ status_msg.kind = StatusSaveFailed("").kind
                /\ FrameStatus(mode, status_msg) = <<status_msg>>
       /\ pc = "ack_wait" => pc' = "done"]_vars

\* The store b is the store a with the point <<x, y>> added to the series
\* at index sel (0-based) and nothing else changed.
GainsPoint(a, b, sel, x, y) ==
    /\ Len(b) = Len(a)
    /\ \A s \in 1..Len(a) :
          /\ b[s].name = a[s].name
          /\ IF s = sel + 1
             THEN SamePoints(b[s].data, Append(a[s].data, <<x, y>>))
             ELSE b[s].data = a[s].data

\* C14: Enter in Insert mode with both buffers parseable as numbers x and y
\* adds exactly one point (x, y) to the active series and to no other,
\* empties both buffers, sets the input mode to Normal and the status to the
\* success message for (x, y), whichever field is active.
C14_Commit ==
    [][(/\ AtKey
        /\ mode = "Graph"
        /\ input_mode = "Insert"
        /\ ParseF64(input_x).ok
        /\ ParseF64(input_y).ok
        /\ handle_events("Enter"))
       => LET x == ParseF64(input_x).val
              y == ParseF64(input_y).val
          IN  /\ GainsPoint(data_series, data_series', selected_serie, x, y)
              /\ selected_serie' = selected_serie
              /\ input_x' = <<>>
              /\ input_y' = <<>>
              /\ input_mode' = "Normal"
              /\ status_msg' = StatusInserted(x, y)]_vars

\* Enter is about to be handled in Insert mode with a buffer that is empty
\* or is no number.
FailingCommit ==
    /\ AtKey
    /\ mode = "Graph"
    /\ input_mode = "Insert"
    /\ ~ParseF64(input_x).ok \/ ~ParseF64(input_y).ok

\* C15 as stated: every failed commit sets the status to the error message
\* and changes nothing else: active field, buffers, input mode, view mode
\* and store are as before.
C15_FailedCommitOnlyStatus ==
    [][(FailingCommit /\ handle_events("Enter"))
       => (/\ status_msg' = StatusInputError
           /\ UNCHANGED <<input_field, input_x, input_y, input_mode, mode,
                          storevars>>)]_vars

\* C15: every failed commit toggles the active field and leaves both
\* buffers, the input mode, the view mode, the store, the table state and
\* the exit flag as before; it sets the status to the error message when
\* both buffers are non-empty, and leaves the status as it was when a
\* buffer is empty.
C15_FailedCommit ==
    [][(FailingCommit /\ handle_events("Enter"))
       => (/\ input_field' # input_field
           /\ input_field' \in {"X", "Y"}
           /\ status_msg' = IF input_x # <<>> /\ input_y # <<>>
                            THEN StatusInputError
                            ELSE status_msg
           /\ UNCHANGED <<input_x, input_y, input_mode, mode, storevars,
                          tablevars, exit>>
           /\ pc' = "draw")]_vars

\* C15 witness: a commit with x = "1" and y = "-" in field Y was refused,
\* and the active field is X.
C15_Witness ==
    /\ pc = "draw"
    /\ input_mode = "Insert"
    /\ status_msg = StatusInputError
    /\ input_field = "X"
    /\ input_x = <<"1">>
    /\ input_y = <<"-">>

\* C16: a confirmed delete (choice Delete, Enter) whose selected row index
\* is no position of the active series (index >= length) leaves the store
\* unchanged and does not crash the process.
C16_StaleDelete ==
    [][(/\ AtKey
        /\ mode = "Table"
        /\ confirm_delete
        /\ confirm_idx = 0
        /\ table_state # <<>>
        /\ UGe(table_state[1], Len(ActiveData))
        /\ handle_events("Enter"))
       => (data_series' = data_series /\ pc' # "crashed")]_vars

\* The characters the input bar accepts.
InputAlphabet ==
    {"0", "1", "2", "3", "4", "5", "6", "7", "8", "9", ".", "-"}

\* C17: each buffer holds at most 5 characters, all digits, '.' or '-';
\* both buffers are empty whenever the input mode is Normal; a character
\* key in Insert mode leaves everything but the active field's buffer as it
\* was, appends to that buffer when the character is a digit, '.' or '-'
\* and the buffer holds fewer than 5 characters, and otherwise leaves it
\* too.
C17_Buffers ==
    /\ []((\A buf \in {input_x, input_y} :
                (Len(buf) <= 5
                    /\ \A i \in 1..Len(buf) : buf[i] \in InputAlphabet))
           /\ (input_mode = "Normal" => (input_x = <<>> /\ input_y = <<>>)))
    /\ [][\A key \in InputCharKeys :
            (AtKey /\ mode = "Graph" /\ input_mode = "Insert"
                   /\ handle_events(key))
            => LET active == IF input_field = "X" THEN input_x ELSE input_y
                   new == IF key \in InputAlphabet /\ Len(active) < 5
                          THEN Append(active, key)
                          ELSE active
               IN  /\ input_x' = IF input_field = "X" THEN new ELSE input_x
                   /\ input_y' = IF input_field = "Y" THEN new ELSE input_y
                   /\ UNCHANGED <<mode, storevars, input_mode, input_field,
                                  status_msg, tablevars, exit>>]_vars

\* C17 witness: the X buffer is full and the Y buffer holds a character, in
\* Insert mode with X the active field.
C17_Witness ==
    /\ pc = "events"
    /\ input_mode = "Insert"
    /\ input_field = "X"
    /\ Len(input_x) = 5
    /\ input_y = <<".">>

\* C18: the input mode is Insert only while the view is Graph, the delete
\* confirmation is active only while the view is Table, and no step changes
\* the view while either is active.
C18_SubModesNested ==
    /\ []((input_mode = "Insert" => mode = "Graph")
           /\ (confirm_delete => mode = "Table"))
    /\ [][InSubMode => mode' = mode]_vars

\* C18 witness: the delete confirmation is active, with choice Cancel, in a
\* session that committed a point in Insert mode before.
C18_Witness ==
    /\ pc = "draw"
    /\ mode = "Table"
    /\ confirm_delete
    /\ confirm_idx = 1
    /\ status_msg.kind = StatusInserted(NaN, NaN).kind

\* C19: in every reachable state a selected row is a position of the active
\* series' data: selected < length, so no row is selected while the series
\* is empty.
C19_SelectionValid ==
    (data_series # <<>> /\ table_state # <<>>)
        => table_state[1] \in 0..(Len(ActiveData) - 1)

\* The store b is the store a with one point taken out of the series at
\* index sel (0-based) and nothing else changed.
LosesPoint(a, b, sel) ==
    /\ Len(b) = Len(a)
    /\ \A s \in 1..Len(a) :
          /\ b[s].name = a[s].name
          /\ IF s = sel + 1
             THEN \E i \in 1..Len(a[s].data) :
                      b[s].data = SubSeq(a[s].data, 1, i - 1)
                                      \o SubSeq(a[s].data, i + 1, Len(a[s].data))
             ELSE b[s].data = a[s].data

\* C20: no key changes the number of series, their names or the selected
\* series index; a key changes the data only as a commit in Insert mode
\* with two parseable buffers (the active series gains exactly that point)
\* or as Enter in the delete confirmation with choice Delete (the active
\* series loses exactly one point).
C20_StoreFrame ==
    [][AtKey
       => /\ Len(data_series') = Len(data_series)
          /\ \A s \in 1..Len(data_series) :
                data_series'[s].name = data_series[s].name
          /\ selected_serie' = selected_serie
          /\ data_series' # data_series
                => \/ /\ mode = "Graph"
                      /\ input_mode = "Insert"
                      /\ ParseF64(input_x).ok
                      /\ ParseF64(input_y).ok
                      /\ handle_events("Enter")
                      /\ GainsPoint(data_series, data_series', selected_serie,
                                    ParseF64(input_x).val, ParseF64(input_y).val)
                   \/ /\ mode = "Table"
                      /\ confirm_delete
                      /\ confirm_idx = 0
                      /\ handle_events("Enter")
                      /\ LosesPoint(data_series, data_series', selected_serie)]_vars

\* C20 witness: a session on the three-point file in which points were
\* deleted and a point was committed, two points being left.
C20_Witness ==
    /\ pc = "draw"
    /\ file = FileOneSeries
    /\ mode = "Graph"
    /\ status_msg.kind = StatusInserted(NaN, NaN).kind
    /\ Len(ActiveData) = 2

\* C21: every point of every series has a finite x and a finite y in every
\* reachable state (neither a commit nor the load stores a NaN or an
\* infinity), and the load's sort does not crash.
C21_FiniteCoordinates ==
    /\ \A s \in 1..Len(data_series) :
          \A i \in 1..Len(data_series[s].data) :
              /\ IsFinite(data_series[s].data[i][1])
              /\ IsFinite(data_series[s].data[i][2])
    /\ ~(pc = "crashed" /\ data_series = <<>>)

\* C22: in a session without a successful commit whose startup load failed
\* on an existing file, a quit is followed by the save, and a save that
\* succeeds leaves the file with the header row alone: none of the rows it
\* held before the session.
C22_FallbackOverwrites ==
    /\ [][(AtKey /\ exit') => pc' = "save"]_vars
    /\ [][(pc = "save" /\ file.exists /\ BadFile(file) /\ pc' = "done")
          => (/\ Len(file.recs) > 1
              /\ file' = [exists |-> TRUE, recs |-> <<Header>>])]_vars

\* C22 witness: the run ended after a successful save, the status still
\* being the load failure on a row that is no number, and the file holds
\* the header alone.
C22_Witness ==
    /\ pc = "done"
    /\ status_msg = StatusLoadFailed("invalid float literal")
    /\ mode = "Table"
    /\ file = [exists |-> TRUE, recs |-> <<Header>>]

====
